---- MODULE Spec2Model ----
(***************************************************************************)
(* Model of the signal-driven BTC backtest engine: normalize_signal and    *)
(* the per-row loop of run_backtest (src/flexible_backtest.py), and the    *)
(* loop of the fixed signal-count script                                   *)
(* (src/btc_trading_with_backtest.py).                                     *)
(*                                                                         *)
(* Numbers: the code computes with Python floats, and so does the model:   *)
(* every arithmetic step of the code is performed in the same order and    *)
(* rounded as binary64 rounds it.  Strings that the code inspects          *)
(* character by character (signal labels) are tuples of characters, each   *)
(* character a string.                                                     *)
(***************************************************************************)
EXTENDS Integers, Sequences, FiniteSets, TLC

VARIABLES policy, variant, run, hist, label, normalized

vars == <<policy, variant, run, hist, label, normalized>>

---------------------------------------------------------------------------
(* Python float arithmetic: IEEE 754 binary64, round to nearest, ties to   *)
(* even.  A float is <<s, m, e>> and stands for s * m * 2^e: s is 1 or -1, *)
(* m is a natural number written as a sequence of limbs, least significant *)
(* first, each limb in 0 .. 2^LimbBits - 1 and the last one not 0; m is    *)
(* odd and has at most MantissaBits bits; e is at least MinExp and the     *)
(* value is below 2^MaxExp.  0.0 and -0.0 are <<1, <<>>, 0>> and           *)
(* <<-1, <<>>, 0>>; inf and -inf are <<s, <<1>>, MaxExp>>, the first value *)
(* out of range; nan is <<0, <<>>, 0>>.  A result out of range is inf, one *)
(* below 2^MinExp is rounded to a multiple of 2^MinExp (subnormals, 0.0).  *)
(* The same triples with a longer m are the exact values the properties    *)
(* compute with (XAdd, XMul).                                              *)

LimbBits == 14

MantissaBits == 53

\* the floats are the multiples of 2^MinExp below 2^MaxExp
MaxExp == 1024

MinExp == -1074

Base == 2^LimbBits

\* natural numbers as limb sequences
RECURSIVE Trim(_)
Trim(a) ==
    IF a # <<>> /\ a[Len(a)] = 0 THEN Trim(SubSeq(a, 1, Len(a) - 1)) ELSE a

RECURSIVE NatOf(_)
NatOf(i) == IF i = 0 THEN <<>> ELSE <<i % Base>> \o NatOf(i \div Base)

Limb(a, i) == IF i >= 1 /\ i <= Len(a) THEN a[i] ELSE 0

RECURSIVE AddFrom(_, _, _, _)
AddFrom(a, b, i, carry) ==
    IF carry = 0 /\ i > Len(b) THEN SubSeq(a, i, Len(a))
    ELSE IF carry = 0 /\ i > Len(a) THEN SubSeq(b, i, Len(b))
    ELSE IF i > Len(a) /\ i > Len(b) THEN <<carry>>
    ELSE LET t == Limb(a, i) + Limb(b, i) + carry
         IN  <<t % Base>> \o AddFrom(a, b, i + 1, t \div Base)

NAdd(a, b) == AddFrom(a, b, 1, 0)

\* a - b for a >= b
RECURSIVE SubFrom(_, _, _, _)
SubFrom(a, b, i, borrow) ==
    IF borrow = 0 /\ i > Len(b) THEN SubSeq(a, i, Len(a))
    ELSE LET t == a[i] - Limb(b, i) - borrow
         IN  IF t < 0 THEN <<t + Base>> \o SubFrom(a, b, i + 1, 1)
             ELSE <<t>> \o SubFrom(a, b, i + 1, 0)

NSub(a, b) == Trim(SubFrom(a, b, 1, 0))

\* -1, 0, 1 as a < b, a = b, a > b
RECURSIVE CmpFrom(_, _, _)
CmpFrom(a, b, i) ==
    IF i = 0 THEN 0
    ELSE IF a[i] < b[i] THEN -1
    ELSE IF a[i] > b[i] THEN 1
    ELSE CmpFrom(a, b, i - 1)

NCmp(a, b) ==
    IF Len(a) < Len(b) THEN -1
    ELSE IF Len(a) > Len(b) THEN 1
    ELSE CmpFrom(a, b, Len(a))

\* a * d for one limb d # 0
RECURSIVE MulSmallFrom(_, _, _, _)
MulSmallFrom(a, d, i, carry) ==
    IF i > Len(a) THEN IF carry = 0 THEN <<>> ELSE <<carry>>
    ELSE LET t == a[i] * d + carry
         IN  <<t % Base>> \o MulSmallFrom(a, d, i + 1, t \div Base)

RECURSIVE MulFrom(_, _, _)
MulFrom(a, b, j) ==
    IF j = Len(b) THEN MulSmallFrom(a, b[j], 1, 0)
    ELSE NAdd(IF b[j] = 0 THEN <<>> ELSE MulSmallFrom(a, b[j], 1, 0),
              <<0>> \o MulFrom(a, b, j + 1))

NMul(a, b) ==
    IF a = <<>> \/ b = <<>> THEN <<>>
    ELSE IF Len(a) < Len(b) THEN MulFrom(b, a, 1)
    ELSE MulFrom(a, b, 1)

\* quotient and remainder of a by a divisor d of one limb
RECURSIVE DivSmallFrom(_, _, _, _)
DivSmallFrom(a, d, i, rem) ==
    IF i = 0 THEN [q |-> <<>>, r |-> rem]
    ELSE LET t == rem * Base + a[i]
             h == DivSmallFrom(a, d, i - 1, t % d)
         IN  [q |-> Append(h.q, t \div d), r |-> h.r]

\* a * 2^k and a \div 2^k, limb by limb
NShl(a, k) ==
    IF a = <<>> \/ k = 0 THEN a
    ELSE LET w    == k \div LimbBits
             low  == 2^(LimbBits - (k % LimbBits))
             high == 2^(k % LimbBits)
         IN  Trim(SubSeq([i \in 1..(Len(a) + w + 1) |->
                            (Limb(a, i - w) % low) * high
                                + Limb(a, i - w - 1) \div low],
                         1, Len(a) + w + 1))

NShr(a, k) ==
    IF k = 0 THEN a
    ELSE IF k \div LimbBits >= Len(a) THEN <<>>
    ELSE LET w    == k \div LimbBits
             low  == 2^(k % LimbBits)
             high == 2^(LimbBits - (k % LimbBits))
         IN  Trim(SubSeq([i \in 1..(Len(a) - w) |->
                            Limb(a, i + w) \div low
                                + (Limb(a, i + w + 1) % low) * high],
                         1, Len(a) - w))

\* the number of bits of x < 2^hi, given that x >= 2^lo or lo = 0, by
\* bisection
RECURSIVE BitLenSmall(_, _, _)
BitLenSmall(x, lo, hi) ==
    IF x = 0 THEN 0
    ELSE IF hi - lo <= 1 THEN hi
    ELSE IF x >= 2^((lo + hi) \div 2) THEN BitLenSmall(x, (lo + hi) \div 2, hi)
    ELSE BitLenSmall(x, lo, (lo + hi) \div 2)

NBitLen(a) ==
    IF a = <<>> THEN 0
    ELSE (Len(a) - 1) * LimbBits + BitLenSmall(a[Len(a)], 0, LimbBits)

\* bit k of a, bit 0 the least significant
NBit(a, k) == (Limb(a, k \div LimbBits + 1) \div 2^(k % LimbBits)) % 2

\* some bit of a below bit k is set
NLowBits(a, k) ==
    \/ \E i \in 1..(k \div LimbBits) : Limb(a, i) # 0
    \/ Limb(a, k \div LimbBits + 1) % 2^(k % LimbBits) # 0

\* the number of trailing zero bits of a # 0
RECURSIVE TzSmall(_)
TzSmall(x) == IF x % 2 = 1 THEN 0 ELSE 1 + TzSmall(x \div 2)

RECURSIVE NTz(_, _)
NTz(a, i) == IF a[i] = 0 THEN LimbBits + NTz(a, i + 1) ELSE TzSmall(a[i])

\* long division by a divisor d of more than one limb: the bits of one limb
\* x of the dividend, the most significant first, brought down to the
\* remainder rem < d
RECURSIVE DivBits(_, _, _, _, _)
RECURSIVE DivBit(_, _, _, _, _)
DivBits(rem, d, x, j, q) ==
    IF j < 0 THEN [q |-> q, r |-> rem]
    ELSE DivBit(NAdd(NShl(rem, 1),
                     IF (x \div 2^j) % 2 = 1 THEN <<1>> ELSE <<>>),
                d, x, j, q)

\* bit j of the quotient, from the remainder r2 with bit j of x brought down
DivBit(r2, d, x, j, q) ==
    IF NCmp(r2, d) >= 0 THEN DivBits(NSub(r2, d), d, x, j - 1, 2 * q + 1)
    ELSE DivBits(r2, d, x, j - 1, 2 * q)

RECURSIVE LongDivFrom(_, _, _, _)
RECURSIVE LongDivLimb(_, _, _, _)
LongDivFrom(a, d, i, rem) ==
    IF i = 0 THEN [q |-> <<>>, r |-> rem]
    ELSE IF rem = <<>> /\ a[i] = 0
    THEN LongDivLimb(a, d, i, [q |-> 0, r |-> <<>>])
    ELSE LongDivLimb(a, d, i, DivBits(rem, d, a[i], LimbBits - 1, 0))

\* limb i of the quotient is b.q; the limbs below it follow from b.r
LongDivLimb(a, d, i, b) ==
    LET h == LongDivFrom(a, d, i - 1, b.r)
    IN  [q |-> Append(h.q, b.q), r |-> h.r]

\* the quotient h.q, exact when the remainder h.r is none
Quotient(h, none) == [q |-> Trim(h.q), exact |-> h.r = none]

\* quotient of n by d # 0, and whether the division is exact
NDiv(n, d) ==
    IF Len(d) = 1 THEN Quotient(DivSmallFrom(n, d[1], Len(n), 0), 0)
    ELSE Quotient(LongDivFrom(n, d, Len(n), <<>>), <<>>)

\* the triple of s * m * 2^e with m odd; a zero keeps its sign
Canon(s, m, e) ==
    IF m = <<>> THEN <<s, <<>>, 0>>
    ELSE IF m[1] % 2 = 1 THEN <<s, m, e>>
    ELSE LET z == NTz(m, 1) IN <<s, NShr(m, z), e + z>>

\* q or the number after it: up when the bits dropped are more than half
\* a unit of q (half = 1 and some bit below set: rest), or half a unit with
\* q odd
RoundUp(q, half, rest) ==
    IF half = 1 /\ (Limb(q, 1) % 2 = 1 \/ rest) THEN NAdd(q, <<1>>) ELSE q

Inf(s) == <<s, <<1>>, MaxExp>>

NaN == <<0, <<>>, 0>>

IsNaN(x) == x[1] = 0

IsInf(x) == x[2] = <<1>> /\ x[3] = MaxExp

\* 0.0 or -0.0
IsZero(x) == x[1] # 0 /\ x[2] = <<>>

\* overflow: a rounded value of 2^MaxExp or more is the infinity
Ranged(z) ==
    IF z[2] # <<>> /\ NBitLen(z[2]) + z[3] > MaxExp THEN Inf(z[1]) ELSE z

\* the float nearest to s * m * 2^e, ties to even; k is the number of bits
\* of m to drop
RoundAt(s, m, e, k) ==
    Ranged(IF k <= 0 THEN Canon(s, m, e)
           ELSE Canon(s, RoundUp(NShr(m, k), NBit(m, k - 1),
                                 NLowBits(m, k - 1)),
                      e + k))

Larger(i, j) == IF i > j THEN i ELSE j

\* the bits of m beyond MantissaBits are dropped, and those below 2^MinExp
Round(s, m, e) ==
    RoundAt(s, m, e, Larger(NBitLen(m) - MantissaBits, MinExp - e))

\* Round and Canon of a triple
Nearest(z) == Round(z[1], z[2], z[3])
Exact(z) == Canon(z[1], z[2], z[3])

Abs(i) == IF i < 0 THEN -i ELSE i

\* float(i) for an integer i
Num(i) == Canon(IF i < 0 THEN -1 ELSE 1, NatOf(Abs(i)), 0)
Zero == Num(0)

Neg(x) == <<-x[1], x[2], x[3]>>

\* the sum s * m * 2^e of x and y, as <<s, m, e>> with m of any parity:
\* of sx * a * 2^e and sy * b * 2^e (of opposite signs: c compares a and
\* b, and equal ones give 0.0), then of x and y brought to the exponent e,
\* the smaller of theirs
Differ(sx, a, sy, b, e, c) ==
    IF c = 0 THEN <<1, <<>>, e>>
    ELSE IF c > 0 THEN <<sx, NSub(a, b), e>>
    ELSE <<sy, NSub(b, a), e>>

Aligned(sx, a, sy, b, e) ==
    IF sx = sy THEN <<sx, NAdd(a, b), e>>
    ELSE Differ(sx, a, sy, b, e, NCmp(a, b))

SumAt(x, y, e) ==
    Aligned(x[1], NShl(x[2], x[3] - e), y[1], NShl(y[2], y[3] - e), e)

Sum(x, y) == SumAt(x, y, IF x[3] < y[3] THEN x[3] ELSE y[3])

\* exact sum and product
XAdd(x, y) == Exact(Sum(x, y))

XMul(x, y) == Canon(x[1] * y[1], NMul(x[2], y[2]), x[3] + y[3])

\* x < y, x = y, x > y as -1, 0, 1
SignOf(d) == IF d[2] = <<>> THEN 0 ELSE d[1]

XCmp(x, y) == SignOf(Sum(x, Neg(y)))

\* the position above the highest bit of x
Top(x) == NBitLen(x[2]) + x[3]

\* y as a term of x + y: when y lies below a quarter of the last bit a float
\* as large as x holds, any value of its sign that lies there rounds the
\* sum the same way, and the sum is taken with such a value of one bit
Faint(x, y) ==
    IF x[2] # <<>> /\ y[2] # <<>> /\ Top(x) - Top(y) > MantissaBits + 2
    THEN <<y[1], <<1>>, Top(x) - MantissaBits - 4>>
    ELSE y

\* float +, -, *
RAdd(x, y) ==
    IF IsNaN(x) \/ IsNaN(y) THEN NaN
    ELSE IF IsInf(x) THEN (IF IsInf(y) /\ x[1] # y[1] THEN NaN ELSE x)
    ELSE IF IsInf(y) THEN y
    ELSE Nearest(Sum(Faint(y, x), Faint(x, y)))

RSub(x, y) == RAdd(x, Neg(y))

RMul(x, y) ==
    IF IsNaN(x) \/ IsNaN(y) THEN NaN
    ELSE IF IsInf(x) \/ IsInf(y)
    THEN (IF IsZero(x) \/ IsZero(y) THEN NaN ELSE Inf(x[1] * y[1]))
    ELSE Round(x[1] * y[1], NMul(x[2], y[2]), x[3] + y[3])

\* float /, for y not zero (the callers raise ZeroDivisionError otherwise):
\* the quotient h of the mantissas, that of x shifted up by k to give
\* MantissaBits + 2 bits or more, a last bit added when the division is not
\* exact, then rounded
Sticky(s, h, e) ==
    Round(s, IF h.exact THEN h.q ELSE [NShl(h.q, 1) EXCEPT ![1] = @ + 1],
          e - (IF h.exact THEN 0 ELSE 1))

RDivAt(x, y, k) ==
    Sticky(x[1] * y[1], NDiv(NShl(x[2], k), y[2]), x[3] - y[3] - k)

Positive(i) == IF i > 0 THEN i ELSE 0

RDiv(x, y) ==
    IF IsNaN(x) \/ IsNaN(y) THEN NaN
    ELSE IF IsInf(x) THEN (IF IsInf(y) THEN NaN ELSE Inf(x[1] * y[1]))
    ELSE IF IsInf(y) \/ IsZero(x) THEN <<x[1] * y[1], <<>>, 0>>
    ELSE RDivAt(x, y,
                Positive(MantissaBits + 2 + NBitLen(y[2]) - NBitLen(x[2])))

\* x > 0
RPos(x) == x[1] = 1 /\ x[2] # <<>>

---------------------------------------------------------------------------
(* Constants of the program.                                               *)

FLAT == "flat"      \* "空仓"
SPOT == "spot"      \* "现货"
LEV1 == "lev1x"     \* "一倍合约"
LEV2 == "lev2x"     \* "两倍合约"

POSITIONS == {FLAT, SPOT, LEV1, LEV2}

TI  == <<"t","e","m","p","e","t","u","r","e","_","i","n","d","e","x">>
MA  == <<"1","2","0","_","m","a">>
ADX == <<"A","D","X">>

SIGNALS == {TI, MA, ADX}

ENTER == "enter"    \* "进场"
EXIT  == "exit"     \* "出场"

None == <<>>

InitialUsd == 1000

---------------------------------------------------------------------------
(* normalize_signal                                                        *)

\* Python's `sub in s` on strings
Contains(s, sub) ==
    \E i \in 0..(Len(s) - Len(sub)) : SubSeq(s, i + 1, i + Len(sub)) = sub

\* the characters str.strip() removes, those str.isspace() holds for: tab,
\* line feed, carriage return, form feed and the space; U+000B, U+001C to
\* U+001F, U+0085, U+00A0 and U+1680 as they are; the characters a module
\* cannot hold (U+2000 to U+200A and those after them) by their code points
Whitespace ==
    {" ", "\t", "\n", "\r", "\f",
     "", "", "", "", "", "", " ", " ",
     "U+2000", "U+2001", "U+2002", "U+2003", "U+2004", "U+2005",
     "U+2006", "U+2007", "U+2008", "U+2009", "U+200A",
     "U+2028", "U+2029", "U+202F", "U+205F", "U+3000"}

RECURSIVE LStrip(_)
LStrip(s) == IF s # <<>> /\ Head(s) \in Whitespace THEN LStrip(Tail(s)) ELSE s

RECURSIVE RStrip(_)
RStrip(s) ==
    IF s # <<>> /\ s[Len(s)] \in Whitespace
    THEN RStrip(SubSeq(s, 1, Len(s) - 1)) ELSE s

\* Python's str.strip()
Strip(s) == RStrip(LStrip(s))

\* mutant: the identifiers are tried in the opposite order
normalize_signalReversed(sig) ==
    IF Contains(sig, ADX) THEN ADX
    ELSE IF Contains(sig, MA) THEN MA
    ELSE IF Contains(sig, TI) THEN TI
    ELSE Strip(sig)

normalize_signal(sig) ==
    IF Contains(sig, TI) THEN TI
    ELSE IF Contains(sig, MA) THEN MA
    ELSE IF Contains(sig, ADX) THEN ADX
    ELSE Strip(sig)

---------------------------------------------------------------------------
(* run_backtest: the steps of one row, in the order of the loop body.      *)

Leveraged(position) == position \in {LEV1, LEV2}

\* step 1 divides by last_price
SettleRaises(position, last_price) ==
    Leveraged(position) /\ last_price # None /\ IsZero(last_price)

\* mutant: the 2x contract settled with the 1x multiplier
SettlePnLSameMultiplier(position, btc, last_price, price) ==
    IF Leveraged(position) /\ last_price # None
    THEN RAdd(btc, RMul(RDiv(RSub(price, last_price), last_price), btc))
    ELSE btc

\* step 1: settle the running contract's PnL into btc
SettlePnL(position, btc, last_price, price) ==
    IF position = LEV1 /\ last_price # None
    THEN RAdd(btc, RMul(RDiv(RSub(price, last_price), last_price), btc))
    ELSE IF position = LEV2 /\ last_price # None
    THEN RAdd(btc, RMul(RDiv(RMul(Num(2), RSub(price, last_price)), last_price), btc))
    ELSE btc

\* last_price for the next row
UpdateLastPrice(position, price) ==
    IF Leveraged(position) THEN price ELSE None

\* mutant: an enter of an already active signal removes it
UpdateSignalsToggle(active_signals, action_type, sig) ==
    IF action_type = ENTER
    THEN IF sig \in active_signals THEN active_signals \ {sig}
         ELSE active_signals \cup {sig}
    ELSE IF action_type = EXIT THEN active_signals \ {sig}
    ELSE active_signals

\* step 2: the active signal set
UpdateSignals(active_signals, action_type, sig) ==
    IF action_type = ENTER THEN active_signals \cup {sig}
    ELSE IF action_type = EXIT THEN active_signals \ {sig}
    ELSE active_signals

\* mutant: a configuration whose ratio is zero counts as no configuration
TruthyUnlessZeroRatio(cfg) ==
    /\ DOMAIN cfg # {}
    /\ ~("ratio" \in DOMAIN cfg /\ cfg.ratio = Zero)

\* Python truth value of a configuration dict
Truthy(cfg) == DOMAIN cfg # {}

\* mutant: an unmapped signal set falls back to flat
TargetPositionFlatDefault(pol, signal_key, position) ==
    IF signal_key \in DOMAIN pol /\ Truthy(pol[signal_key])
    THEN pol[signal_key].position ELSE FLAT

\* mutant: an empty signal set is taken for "no key" and never looked up
TargetPositionSkipsEmptyKey(pol, signal_key, position) ==
    IF signal_key # {} /\ signal_key \in DOMAIN pol /\ Truthy(pol[signal_key])
    THEN pol[signal_key].position ELSE position

\* policy.get(signal_key, None) and the default continuation
TargetPosition(pol, signal_key, position) ==
    IF signal_key \in DOMAIN pol /\ Truthy(pol[signal_key])
    THEN pol[signal_key].position ELSE position

\* target_cfg["position"] on a non-empty dict without that key
HasPosition(cfg) == "position" \in DOMAIN cfg

LookupRaises(pol, signal_key) ==
    /\ signal_key \in DOMAIN pol
    /\ Truthy(pol[signal_key])
    /\ ~HasPosition(pol[signal_key])

\* mutant: the position type is not validated
TargetRaisesNever(target_position) == FALSE

\* the check against POSITIONS
TargetRaises(target_position) == target_position \notin POSITIONS

\* mutant: the position is closed and reopened on every row
NeedsSwitchAlways(target_position, position) == TRUE

\* step 3 is entered only when the target differs
NeedsSwitch(target_position, position) == target_position # position

\* step 3, first half: close the old position into USD
LiquidateUsd(position, usd, btc, price) ==
    IF position = SPOT \/ Leveraged(position) THEN RMul(btc, price) ELSE usd

LiquidateBtc(position, btc) ==
    IF position = SPOT \/ Leveraged(position) THEN Zero ELSE btc

\* step 3, second half divides by price
ReopenRaises(target_position, price) ==
    (target_position = SPOT \/ Leveraged(target_position)) /\ IsZero(price)

ReopenBtc(target_position, usd, btc, price) ==
    IF target_position = SPOT \/ Leveraged(target_position)
    THEN RDiv(usd, price) ELSE btc

\* mutant: the USD spent on the new position is not taken off the balance
ReopenUsdKept(target_position, usd) == usd

ReopenUsd(target_position, usd) ==
    IF target_position = SPOT \/ Leveraged(target_position) THEN Zero ELSE usd

\* mutant: the opening price of a new contract is not recorded
ReopenLastPriceKept(target_position, last_price, price) == last_price

ReopenLastPrice(target_position, last_price, price) ==
    IF Leveraged(target_position) THEN price ELSE last_price

NoRemark == <<>>

\* mutant: the switch leaves the remark empty
RemarkForgotten(target_position) == NoRemark

Remark(target_position) == <<"switch_to", target_position>>

\* mutant: the total is always read from the asset side
TotalAssetsFromBtc(usd, btc, price) == RMul(btc, price)

\* step 4
TotalAssets(usd, btc, price) == IF RPos(usd) THEN usd ELSE RMul(btc, price)

\* the detail columns before the first row is written: '' in each (an empty
\* signal list and an empty remark are '' as well)
NoSnapshot ==
    [position |-> "", btc |-> "", total |-> "", signals |-> {},
     remark |-> NoRemark]

\* the local state of one call, before the first row
InitialAccount ==
    [usd |-> Num(InitialUsd), btc |-> Zero, position |-> FLAT,
     active_signals |-> {}, last_price |-> None,
     rows |-> 0, err |-> "none", snapshot |-> NoSnapshot,
     \* what the row just processed saw, kept for the properties
     price |-> Zero, key |-> {}, prev_position |-> FLAT, prev_btc |-> Zero,
     prev_last_price |-> None, prev_price |-> None, settled_btc |-> Zero,
     total_before |-> Zero, switched |-> FALSE, ever_active |-> FALSE,
     prev_usd |-> Zero, set_changed |-> FALSE]

\* the row is read: the values before it are kept for the comparison
\* with those after it
Seen(a, price) ==
    [a EXCEPT !.price = price, !.prev_position = a.position,
              !.prev_btc = a.btc, !.prev_last_price = a.last_price,
              !.prev_price = IF a.rows = 0 THEN None ELSE a.price,
              !.prev_usd = a.usd,
              !.switched = FALSE, !.rows = a.rows + 1]

\* steps 1 and 2 done: btc1 the settled quantity, active1 the updated set
Marked(a, btc1, active1, price) ==
    [a EXCEPT !.btc = btc1, !.last_price = UpdateLastPrice(a.position, price),
              !.active_signals = active1, !.key = active1,
              !.ever_active = a.ever_active \/ active1 # {},
              !.settled_btc = btc1,
              !.set_changed = active1 # a.active_signals,
              !.total_before = TotalAssets(a.usd, btc1, price)]

\* step 3, first half: the position held is turned into USD
Liquidated(a, price) ==
    [a EXCEPT !.usd = LiquidateUsd(a.position, a.usd, a.btc, price),
              !.btc = LiquidateBtc(a.position, a.btc)]

\* step 3, second half: the target position is opened with the USD
Reopened(a, target, price) ==
    [a EXCEPT !.usd = ReopenUsd(target, a.usd),
              !.btc = ReopenBtc(target, a.usd, a.btc, price),
              !.last_price = ReopenLastPrice(target, a.last_price, price),
              !.position = target, !.switched = TRUE]

\* step 4: the detail columns of the row
Written(a, total, remark) ==
    [a EXCEPT !.snapshot = [position |-> a.position, btc |-> a.btc,
                            total |-> total, signals |-> a.active_signals,
                            remark |-> remark]]

\* step 4 of a row that has switched
WrittenSwitch(a, price) ==
    Written(a, TotalAssets(a.usd, a.btc, price), Remark(a.position))

\* step 3 and step 4 of a row that switches to target
Switch(a, target, price) ==
    IF ReopenRaises(target, price) THEN [a EXCEPT !.err = "ZeroDivisionError"]
    ELSE WrittenSwitch(Reopened(a, target, price), price)

\* the lookup of the target position and what follows it; without a
\* switch the total is the one computed after the settlement
Decide(pol, a, price) ==
    LET target == TargetPosition(pol, a.active_signals, a.position)
    IN  IF LookupRaises(pol, a.active_signals)
        THEN [a EXCEPT !.err = "KeyError"]
        ELSE IF TargetRaises(target) THEN [a EXCEPT !.err = "ValueError"]
        ELSE IF NeedsSwitch(target, a.position)
        THEN Switch(Liquidated(a, price), target, price)
        ELSE Written(a, a.total_before, NoRemark)

\* the row with its price as a float
RowAt(pol, a, row, price) ==
    IF SettleRaises(a.position, a.last_price)
    THEN [Seen(a, price) EXCEPT !.err = "ZeroDivisionError"]
    ELSE Decide(pol,
                Marked(Seen(a, price),
                       SettlePnL(a.position, a.btc, a.last_price, price),
                       UpdateSignals(a.active_signals, row.action,
                                     normalize_signal(row.signal)),
                       price),
                price)

\* one iteration of the loop body on account a
ProcessRow(pol, a, row) == RowAt(pol, a, row, Num(row.price))

---------------------------------------------------------------------------
(* The fixed signal-count script (src/btc_trading_with_backtest.py): the   *)
(* same loop on module-level variables, the target given by the number of  *)
(* active signals.                                                         *)

LegacyInitialUsd == 1000

\* the script's own copy of the normalizer
legacy_normalize_signal(sig) ==
    IF Contains(sig, TI) THEN TI
    ELSE IF Contains(sig, MA) THEN MA
    ELSE IF Contains(sig, ADX) THEN ADX
    ELSE Strip(sig)

\* the division by last_price of the settlement
LegacySettleRaises(current_position, last_price) ==
    Leveraged(current_position) /\ last_price # None /\ IsZero(last_price)

\* settle the contract held against the new price
LegacySettle(current_position, current_btc, last_price, price) ==
    IF current_position = LEV1 /\ last_price # None
    THEN RAdd(current_btc,
              RMul(RDiv(RSub(price, last_price), last_price), current_btc))
    ELSE IF current_position = LEV2 /\ last_price # None
    THEN RAdd(current_btc,
              RMul(RDiv(RMul(Num(2), RSub(price, last_price)), last_price),
                   current_btc))
    ELSE current_btc

\* the reference price is recorded for spot too, and kept while flat
LegacyLastPrice(current_position, last_price, price) ==
    IF current_position # FLAT THEN price ELSE last_price

LegacyUpdateSignals(active_signals, type_, signal) ==
    IF type_ = ENTER THEN active_signals \cup {signal}
    ELSE IF type_ = EXIT THEN active_signals \ {signal}
    ELSE active_signals

\* mutant: two or more signals give the 1x contract
LegacyTargetNoDouble(n_signal) ==
    IF n_signal = 0 THEN FLAT
    ELSE IF n_signal = 1 THEN SPOT
    ELSE LEV1

\* the target by the number of active signals
LegacyTarget(n_signal) ==
    IF n_signal = 0 THEN FLAT
    ELSE IF n_signal = 1 THEN SPOT
    ELSE IF n_signal = 2 THEN LEV1
    ELSE LEV2

LegacyLiquidateUsd(current_position, current_usd, current_btc, price) ==
    IF current_position \in {SPOT, LEV1, LEV2} THEN RMul(current_btc, price)
    ELSE current_usd

LegacyLiquidateBtc(current_position, current_btc) ==
    IF current_position \in {SPOT, LEV1, LEV2} THEN Zero ELSE current_btc

LegacyReopenRaises(target_position, price) ==
    target_position \in {SPOT, LEV1, LEV2} /\ IsZero(price)

LegacyReopenBtc(target_position, current_usd, current_btc, price) ==
    IF target_position \in {SPOT, LEV1, LEV2} THEN RDiv(current_usd, price)
    ELSE current_btc

LegacyReopenUsd(target_position, current_usd) ==
    IF target_position \in {SPOT, LEV1, LEV2} THEN Zero ELSE current_usd

\* the remark texts of the script; the spot one carries the signal count
LegacyRemark(target_position, n_signal) ==
    IF target_position = SPOT THEN <<"legacy_switch_to", SPOT, n_signal>>
    ELSE IF target_position \in {FLAT, LEV1, LEV2}
    THEN <<"legacy_switch_to", target_position>>
    ELSE NoRemark

LegacySwitchLastPrice(current_position, price) ==
    IF current_position \in {LEV1, LEV2} THEN price ELSE None

LegacyTotal(current_usd, current_btc, price) ==
    IF RPos(current_usd) THEN current_usd ELSE RMul(current_btc, price)

\* the module-level variables before the loop
LegacyInitial ==
    [current_usd |-> Num(LegacyInitialUsd), current_btc |-> Zero,
     current_position |-> FLAT, active_signals |-> {}, last_price |-> None,
     rows |-> 0, err |-> "none", snapshot |-> NoSnapshot]

\* the settlement and the signal update done: btc1 the settled quantity,
\* active1 the updated set
LegacyMarked(g, btc1, active1, price) ==
    [g EXCEPT !.rows = g.rows + 1, !.current_btc = btc1,
              !.last_price = LegacyLastPrice(g.current_position, g.last_price,
                                             price),
              !.active_signals = active1]

LegacyLiquidated(g, price) ==
    [g EXCEPT !.current_usd = LegacyLiquidateUsd(g.current_position,
                                                 g.current_usd, g.current_btc,
                                                 price),
              !.current_btc = LegacyLiquidateBtc(g.current_position,
                                                 g.current_btc)]

LegacyReopened(g, target, price) ==
    [g EXCEPT !.current_usd = LegacyReopenUsd(target, g.current_usd),
              !.current_btc = LegacyReopenBtc(target, g.current_usd,
                                              g.current_btc, price),
              !.current_position = target,
              !.last_price = LegacySwitchLastPrice(target, price)]

\* the detail columns of the row
LegacyWritten(g, remark, price) ==
    [g EXCEPT !.snapshot = [position |-> g.current_position,
                            btc |-> g.current_btc,
                            total |-> LegacyTotal(g.current_usd, g.current_btc,
                                                  price),
                            signals |-> g.active_signals, remark |-> remark]]

LegacySwitch(g, target, price) ==
    IF LegacyReopenRaises(target, price)
    THEN [g EXCEPT !.err = "ZeroDivisionError"]
    ELSE LegacyWritten(LegacyReopened(g, target, price),
                       LegacyRemark(target, Cardinality(g.active_signals)),
                       price)

\* the target by the signal count and what follows it
LegacyDecide(g, price) ==
    LET target == LegacyTarget(Cardinality(g.active_signals))
    IN  IF target # g.current_position
        THEN LegacySwitch(LegacyLiquidated(g, price), target, price)
        ELSE LegacyWritten(g, NoRemark, price)

\* the row with its price as a float
LegacyRowAt(g, row, price) ==
    IF LegacySettleRaises(g.current_position, g.last_price)
    THEN [g EXCEPT !.rows = g.rows + 1, !.err = "ZeroDivisionError"]
    ELSE LegacyDecide(
             LegacyMarked(g,
                          LegacySettle(g.current_position, g.current_btc,
                                       g.last_price, price),
                          LegacyUpdateSignals(
                              g.active_signals, row.action,
                              legacy_normalize_signal(row.signal)),
                          price),
             price)

\* one iteration of the script's loop
LegacyRow(g, row) == LegacyRowAt(g, row, Num(row.price))

---------------------------------------------------------------------------
(* Inputs.                                                                 *)

MaxRows == 3

Prices == {50, 100, 110}

ActionTypes == {ENTER, EXIT, "other"}

\* raw labels of the "信号" column
RawSignals == {TI, ADX \o <<" ">> \o MA}

EngineSignals == {normalize_signal(s) : s \in RawSignals}

BadPosition == "lev3x"

PartialFunctions(D, R) == UNION {[K -> R] : K \in SUBSET D}

Cfg(p) == [position |-> p]

\* rank of the configuration of key k in policy p (0: k is not a key)
Rank(p, k) ==
    IF k \notin DOMAIN p THEN 0
    ELSE CHOOSE n \in 1..5 :
            p[k].position = <<FLAT, SPOT, LEV1, LEV2, BadPosition>>[n]

\* The engine treats signal names alike, so of two policies that differ only
\* by exchanging the two signals one is kept.
Canonical(p) == Rank(p, {TI}) <= Rank(p, {MA})

\* the partial maps from the signal sets to the four position types that
\* leave the first signal alone unmapped
ValidPolicies ==
    PartialFunctions((SUBSET EngineSignals) \ {{TI}},
                     {Cfg(q) : q \in POSITIONS})

\* maps with one key configured with a position outside POSITIONS and the
\* other keys of the map configured flat
InvalidPolicies ==
    {[k \in K |-> IF k = b THEN Cfg(BadPosition) ELSE Cfg(FLAT)] :
        <<K, b>> \in {t \in (SUBSET SUBSET EngineSignals) \X (SUBSET EngineSignals) :
                        t[2] \in t[1]}}

\* an empty configuration dict, and one without a position
EmptyCfg == <<>>

RatioOnlyCfg == [ratio |-> Num(1)]

OddPolicies ==
    { ({} :> Cfg(FLAT)) @@ ({MA} :> Cfg(SPOT)) @@ ({TI, MA} :> EmptyCfg),
      ({} :> EmptyCfg) @@ ({MA} :> Cfg(LEV1)),
      ({MA} :> Cfg(LEV1)) @@ ({TI, MA} :> RatioOnlyCfg),
      ({MA} :> Cfg(SPOT)) @@ ({TI, MA} :> Cfg(BadPosition)),
      ({} :> Cfg(BadPosition)) @@ ({MA} :> Cfg(LEV2)) }

Policies == ValidPolicies \cup InvalidPolicies \cup OddPolicies

\* entries at every price, exits at the prices away from 100, the first
\* label away from 50; a row that neither enters nor exits carries any
\* label: one, at 100, is enough
RowsOver(prices) ==
    [price : prices, action : {ENTER}, signal : RawSignals \ {TI}]
        \cup [price : prices \ {50}, action : {ENTER}, signal : {TI}]
        \cup [price : prices \ {100}, action : {EXIT},
              signal : RawSignals \ {TI}]
        \cup [price : prices \ {50, 100}, action : {EXIT}, signal : {TI}]
        \cup [price : prices \cap {100},
              action : ActionTypes \ {ENTER, EXIT}, signal : {TI}]

Rows == RowsOver(Prices)

---------------------------------------------------------------------------
(* Inputs that the design excludes: zero and negative prices.              *)

AnyPrices == Prices \cup {0, -100}

AnyRows == RowsOver(AnyPrices)

---------------------------------------------------------------------------
(* Two calls of run_backtest sharing one policy table.                     *)

MaxRowsTwo == 2

\* entries at either price, an exit at the higher one
RowsTwo ==
    [price : {100, 110}, action : {ENTER}, signal : {TI, <<" ">> \o MA}]
        \cup [price : {110}, action : {EXIT}, signal : {<<" ">> \o MA}]

SharedPolicies ==
    { ({} :> Cfg(FLAT)) @@ ({TI} :> Cfg(SPOT)) @@ ({MA} :> Cfg(LEV2))
        @@ ({TI, MA} :> Cfg(LEV1)),
      ({TI} :> Cfg(LEV1)) @@ ({MA} :> Cfg(SPOT)) }

---------------------------------------------------------------------------
(* Labels for normalize_signal: up to MaxParts pieces, concatenated.       *)

MaxParts == 3

Pieces ==
    {TI, MA, ADX, <<" ">>, <<"\r">>, <<"U+3000">>, <<"#">>, <<"A", "D">>,
     <<"X">>, <<"1", "2", "0">>, <<"_", "m", "a">>}

RECURSIVE Concat(_)
Concat(parts) == IF parts = <<>> THEN <<>> ELSE Head(parts) \o Concat(Tail(parts))

Labels == {Concat(ps) : ps \in UNION {[1..n -> Pieces] : n \in 0..MaxParts}}

---------------------------------------------------------------------------
(* Policies that carry the allocation ratio of the parameter panel.        *)

MaxRowsRatio == 3

\* a configuration as the panel builds it
CfgRatio(p, ratio) == [position |-> p, ratio |-> ratio]

\* the configurations of one position: without a ratio, or with one
CfgsOf(p) == {Cfg(p)} \cup {CfgRatio(p, ratio) : ratio \in {Zero, Num(1)}}

PositionMaps ==
    { ({MA} :> LEV2) @@ ({TI, MA} :> SPOT),
      ({} :> SPOT) @@ ({TI, MA} :> LEV1) }

\* the policies that give every key of m its position, with any ratios
RatioVariants(m) ==
    {q \in [DOMAIN m -> UNION {CfgsOf(p) : p \in POSITIONS}] :
        \A k \in DOMAIN m : q[k].position = m[k]}

RatioPolicies == UNION {RatioVariants(m) : m \in PositionMaps}

PositionsOf(q) == [k \in DOMAIN q |-> q[k].position]

RowsRatio ==
    [price : {100, 110}, action : {ENTER, EXIT}, signal : RawSignals]

---------------------------------------------------------------------------
(* The engine with DEFAULT_POLICY next to the signal-count script.         *)

MaxRowsBoth == 5

MaxRowsTrace == 3

DEFAULT_POLICY ==
    ({} :> Cfg(FLAT))
        @@ ({TI} :> Cfg(SPOT)) @@ ({MA} :> Cfg(SPOT)) @@ ({ADX} :> Cfg(SPOT))
        @@ ({TI, MA} :> Cfg(LEV1)) @@ ({TI, ADX} :> Cfg(LEV1))
        @@ ({MA, ADX} :> Cfg(LEV1))
        @@ ({TI, MA, ADX} :> Cfg(LEV2))

\* labels of the three signals
RawSignalsBoth == RawSignals \cup {ADX}

RowsBothOver(prices) ==
    [price : prices, action : {ENTER, EXIT}, signal : RawSignalsBoth]
        \cup [price : prices, action : ActionTypes \ {ENTER, EXIT},
              signal : {TI}]

RowsBoth == RowsBothOver(Prices)

RowsTrace == RowsBothOver({100, 110})

---------------------------------------------------------------------------
(* The state machine.                                                      *)

\* mutant: the active signal set is one module-level set used by every call
AccountSharedSignals(runs, r) ==
    [runs[r] EXCEPT !.active_signals =
        UNION {runs[q].active_signals : q \in DOMAIN runs}]

\* the state variables of call r (locals of run_backtest)
Account(runs, r) == runs[r]

\* hist[r]: the rows call r has consumed and the detail it wrote for each,
\* kept when the calls are compared
Record(h, r, row, a) ==
    IF r \in DOMAIN h /\ a.err = "none"
    THEN [h EXCEPT ![r] = Append(@, [row |-> row, snapshot |-> a.snapshot])]
    ELSE h

\* one call from account a on: the exception that ends it, if any, and
\* the details it returns and saves; a call that raises returns and saves
\* nothing
RECURSIVE RunFrom(_, _, _, _)
RunFrom(pol, a, rows, details) ==
    IF rows = <<>> THEN [raises |-> "none", returns |-> details]
    ELSE LET a2 == ProcessRow(pol, a, Head(rows))
         IN  IF a2.err # "none" THEN [raises |-> a2.err, returns |-> <<>>]
             ELSE RunFrom(pol, a2, Tail(rows), Append(details, a2.snapshot))

run_backtest(pol, rows) == RunFrom(pol, InitialAccount, rows, <<>>)

Init ==
    /\ policy \in Policies
    /\ run = [r \in {1} |-> InitialAccount]
    /\ variant = <<>>
    /\ hist = <<>>
    /\ label = <<>>
    /\ normalized = <<>>

\* the loop of call r takes its next row; the policy is only read
Step(r, rows, max) ==
    /\ run[r].err = "none"
    /\ run[r].rows < max
    /\ \E row \in rows :
          LET a2 == ProcessRow(policy, Account(run, r), row)
          IN  /\ run' = [run EXCEPT ![r] = a2]
              /\ hist' = Record(hist, r, row, a2)
    /\ UNCHANGED <<policy, variant, label, normalized>>

Next == \E r \in DOMAIN run : Step(r, Rows, MaxRows)

Spec == Init /\ [][Next]_vars

\* the same engine fed with prices of any sign
NextAny == \E r \in DOMAIN run : Step(r, AnyRows, MaxRows)

\* policies defined on every signal set, flat when no signal is active
TotalPolicies ==
    {p \in [SUBSET EngineSignals -> {Cfg(q) : q \in POSITIONS}] :
        p[{}] = Cfg(FLAT) /\ Canonical(p) /\ Rank(p, {TI}) <= 2}

InitAny ==
    /\ policy \in TotalPolicies
    /\ run = [r \in {1} |-> InitialAccount]
    /\ variant = <<>>
    /\ hist = <<>>
    /\ label = <<>>
    /\ normalized = <<>>

SpecAny == InitAny /\ [][NextAny]_vars

\* two calls on one policy table, interleaved row by row
InitTwo ==
    /\ policy \in SharedPolicies
    /\ run = [r \in {1, 2} |-> InitialAccount]
    /\ variant = <<>>
    /\ hist = [r \in {1, 2} |-> <<>>]
    /\ label = <<>>
    /\ normalized = <<>>

NextTwo == \E r \in DOMAIN run : Step(r, RowsTwo, MaxRowsTwo)

SpecTwo == InitTwo /\ [][NextTwo]_vars

\* two calls over the same rows, the second with a ratio variant of the
\* policy of the first
InitRatio ==
    /\ policy \in RatioPolicies
    /\ variant \in RatioVariants(PositionsOf(policy))
    /\ run = [r \in {1, 2} |-> InitialAccount]
    /\ hist = <<>>
    /\ label = <<>>
    /\ normalized = <<>>

StepRatio ==
    /\ \A r \in DOMAIN run : run[r].err = "none" /\ run[r].rows < MaxRowsRatio
    /\ \E row \in RowsRatio :
          run' = [r \in {1, 2} |->
                    ProcessRow(IF r = 1 THEN policy ELSE variant,
                               Account(run, r), row)]
    /\ UNCHANGED <<policy, variant, hist, label, normalized>>

NextRatio == StepRatio

SpecRatio == InitRatio /\ [][NextRatio]_vars

\* run_backtest with DEFAULT_POLICY (call 1) and the script (2) read the
\* same file row by row
StepBoth(rows, max) ==
    /\ \A r \in DOMAIN run : run[r].err = "none" /\ run[r].rows < max
    /\ \E row \in rows :
          LET a2 == ProcessRow(policy, Account(run, 1), row)
              g2 == LegacyRow(run[2], row)
          IN  /\ run' = <<a2, g2>>
              /\ hist' = Record(hist, 1, row, a2)
    /\ UNCHANGED <<policy, variant, label, normalized>>

InitBoth ==
    /\ policy = DEFAULT_POLICY
    /\ variant = <<>>
    /\ run = <<InitialAccount, LegacyInitial>>
    /\ hist = <<>>
    /\ label = <<>>
    /\ normalized = <<>>

NextBoth == StepBoth(RowsBoth, MaxRowsBoth)

SpecBoth == InitBoth /\ [][NextBoth]_vars

\* the same pair with the rows read so far recorded
InitTrace ==
    /\ policy = DEFAULT_POLICY
    /\ variant = <<>>
    /\ run = <<InitialAccount, LegacyInitial>>
    /\ hist = [r \in {1} |-> <<>>]
    /\ label = <<>>
    /\ normalized = <<>>

NextTrace == StepBoth(RowsTrace, MaxRowsTrace)

SpecTrace == InitTrace /\ [][NextTrace]_vars

\* normalize_signal applied to a label, then to its own result
InitNorm ==
    /\ policy = <<>>
    /\ variant = <<>>
    /\ run = <<>>
    /\ hist = <<>>
    /\ label \in Labels
    /\ normalized = <<>>

Normalize ==
    /\ Len(normalized) < 2
    /\ normalized' = Append(normalized,
                            normalize_signal(IF normalized = <<>> THEN label
                                             ELSE normalized[Len(normalized)]))
    /\ UNCHANGED <<policy, variant, run, hist, label>>

NextNorm == Normalize

SpecNorm == InitNorm /\ [][NextNorm]_vars

---------------------------------------------------------------------------
(* Properties.                                                             *)

\* call r has processed a row to the end and written its detail columns
Emitted(r) == run[r].rows > 0 /\ run[r].err = "none"

\* C1: a position switch is value-neutral: the total asset value right
\* before the switch (after this row's settlement) equals the total asset
\* value written for the row.
C1_SwitchIsValueNeutral ==
    \A r \in DOMAIN run :
        (Emitted(r) /\ run[r].switched)
            => run[r].snapshot.total = run[r].total_before

\* C2: a row whose active signal set is not a key of the policy raises
\* nothing, keeps the position of the previous row (flat on the first row)
\* and writes an empty remark.
C2_DefaultContinuation ==
    \A r \in DOMAIN run :
        (run[r].rows > 0 /\ run[r].key \notin DOMAIN policy)
            => /\ run[r].err = "none"
               /\ run[r].position = run[r].prev_position
               /\ run[r].snapshot.position = run[r].prev_position
               /\ run[r].rows = 1 => run[r].position = FLAT
               /\ run[r].snapshot.remark = NoRemark
               /\ ~run[r].switched

C2_Witness ==
    \E r \in DOMAIN run :
        /\ run[r].rows > 1 /\ run[r].key \notin DOMAIN policy
        /\ run[r].key = {TI, MA}
        /\ run[r].prev_position = SPOT /\ run[r].position = SPOT
        /\ run[r].snapshot.remark = NoRemark

\* C3: a policy holding a position outside POSITIONS makes the call fail
\* before any row is processed.
C3_ConfigErrorFailsFast ==
    \A r \in DOMAIN run :
        (\E k \in DOMAIN policy :
            HasPosition(policy[k]) /\ policy[k].position \notin POSITIONS)
            => /\ ~Emitted(r)
               /\ run[r].active_signals = {}
               /\ IsZero(run[r].btc)

\* C4 as stated: under every policy, while the active signal set has been
\* empty after every row, every row's total asset value is the initial
\* capital.
C4_FlatToFlatAnyPolicy ==
    \A r \in DOMAIN run :
        (Emitted(r) /\ ~run[r].ever_active)
            => run[r].snapshot.total = Num(InitialUsd)

\* the policy does not configure the empty signal set with a holding
EmptySetStaysFlat ==
    {} \in DOMAIN policy
        => HasPosition(policy[{}]) /\ policy[{}].position = FLAT

\* C4 (amended): under every policy that maps the empty signal set to flat
\* or leaves it unmapped, while the active signal set has been empty after
\* every row, every row's total asset value is the initial capital.
C4_FlatToFlat ==
    \A r \in DOMAIN run :
        (Emitted(r) /\ ~run[r].ever_active /\ EmptySetStaysFlat)
            => /\ run[r].snapshot.total = Num(InitialUsd)
               /\ run[r].snapshot.position = FLAT

C4_Witness ==
    \E r \in DOMAIN run :
        /\ Emitted(r) /\ ~run[r].ever_active /\ EmptySetStaysFlat
        /\ {} \in DOMAIN policy
        /\ run[r].rows > 1 /\ run[r].price # run[r].prev_price
        /\ run[r].snapshot.total = Num(InitialUsd)

\* a row that held a contract of the given type and did not switch
Held(r, position) ==
    /\ Emitted(r) /\ ~run[r].switched
    /\ run[r].prev_position = position
    /\ ~IsZero(run[r].prev_btc)

XAbs(x) == <<1, x[2], x[3]>>

\* the change of the asset quantity over the row just processed, and the
\* move of the price against the reference price the row started with
QuantityChange(r) == XAdd(run[r].snapshot.btc, Neg(run[r].prev_btc))

PriceChange(r) == XAdd(run[r].price, Neg(run[r].prev_last_price))

\* (new - q) / q = L * (P1 - P0) / P0 as real numbers, multiplied out
ExactChange(r, L) ==
    XMul(QuantityChange(r), run[r].prev_last_price)
        = XMul(XMul(Num(L), PriceChange(r)), run[r].prev_btc)

\* C5 as stated: over a row without a switch, from the same quantity and
\* reference price P0 to price P1, the quantity held 1x-leveraged changes by
\* exactly the fraction (P1-P0)/P0 and the quantity held 2x-leveraged by
\* exactly twice that fraction.
C5_ExactAmplification ==
    \A r \in DOMAIN run :
        /\ Held(r, LEV1) => ExactChange(r, 1)
        /\ Held(r, LEV2) => ExactChange(r, 2)

\* the float (P1-P0)/P0*q, the quantity a 1x contract adds over the row
Increment1x(r) ==
    RMul(RDiv(RSub(run[r].price, run[r].prev_last_price),
              run[r].prev_last_price),
         run[r].prev_btc)

Tolerance == <<1, <<1>>, -51>>

\* |(new - q) / q - L * (P1 - P0) / P0| <= 2^-51 * (1 + |L * (P1 - P0) / P0|),
\* multiplied out
WithinRounding(r, L) ==
    LET exact == XMul(XMul(Num(L), PriceChange(r)), run[r].prev_btc)
        whole == XMul(run[r].prev_btc, run[r].prev_last_price)
        off   == XAdd(XMul(QuantityChange(r), run[r].prev_last_price),
                      Neg(exact))
    IN  XCmp(XAbs(off), XMul(Tolerance, XAdd(XAbs(whole), XAbs(exact)))) <= 0

\* zero, or a float of the normal range: 2^(MinExp + MantissaBits - 1) or
\* more and less than 2^MaxExp in magnitude
Regular(x) ==
    \/ IsZero(x)
    \/ x[1] # 0 /\ Top(x) <= MaxExp /\ Top(x) >= MinExp + MantissaBits

\* the settlement of the row neither overflows nor reaches the subnormals,
\* at 1x and at 2x
SettledAt(r, ratio, inc) ==
    /\ Regular(ratio) /\ Regular(XMul(Num(2), ratio))
    /\ Regular(inc) /\ Regular(XMul(Num(2), inc))
    /\ Regular(run[r].prev_btc) /\ Regular(run[r].snapshot.btc)

InRange(r) ==
    SettledAt(r, RDiv(RSub(run[r].price, run[r].prev_last_price),
                      run[r].prev_last_price),
              Increment1x(r))

\* C5 (amended): over a row without a switch, from the same quantity q and
\* reference price P0 to price P1, as long as the settlement stays in the
\* normal range of the floats, the quantity a 2x contract adds is exactly
\* twice the quantity a 1x contract adds, the float (P1-P0)/P0*q; the new
\* quantity is the float sum of q and the addition, so that the change
\* divided by q is L*(P1-P0)/P0 within float rounding, not exactly.
C5_LeverageAmplification ==
    \A r \in DOMAIN run :
        /\ (Held(r, LEV1) /\ InRange(r))
              => /\ run[r].snapshot.btc = RAdd(run[r].prev_btc, Increment1x(r))
                 /\ WithinRounding(r, 1)
        /\ (Held(r, LEV2) /\ InRange(r))
              => /\ run[r].snapshot.btc =
                        RAdd(run[r].prev_btc, XMul(Num(2), Increment1x(r)))
                 /\ WithinRounding(r, 2)

\* a 2x contract over a price move that the floats do not follow exactly
C5_Witness ==
    \E r \in DOMAIN run :
        /\ Held(r, LEV2) /\ InRange(r)
        /\ ~IsZero(PriceChange(r))
        /\ run[r].snapshot.btc =
              RAdd(run[r].prev_btc, XMul(Num(2), Increment1x(r)))
        /\ ~ExactChange(r, 2)

Multiplier(position) == IF position = LEV2 THEN 2 ELSE 1

\* C6: every settlement uses the price of the immediately preceding row as
\* its reference; a row at price P1 that keeps a contract of multiplier L
\* holding q after the row at price P0 writes quantity
\* q + L*(P1-P0)/P0*q and total value quantity*P1.
C6_ReferenceIsPreviousPrice ==
    \A r \in DOMAIN run :
        /\ (run[r].rows > 0 /\ Leveraged(run[r].prev_position))
              => run[r].prev_last_price = run[r].prev_price
        /\ (Emitted(r) /\ ~run[r].switched /\ Leveraged(run[r].position))
              => /\ run[r].prev_price # None
                 /\ run[r].snapshot.btc =
                      RAdd(run[r].prev_btc,
                           RMul(RDiv(RMul(Num(Multiplier(run[r].position)),
                                          RSub(run[r].price, run[r].prev_price)),
                                     run[r].prev_price),
                                run[r].prev_btc))
                 /\ run[r].snapshot.total = RMul(run[r].snapshot.btc, run[r].price)

\* Scenario B: 1000 USD, 1x entered at 100, next row at 110
C6_Witness ==
    \E r \in DOMAIN run :
        /\ Emitted(r) /\ ~run[r].switched /\ run[r].position = LEV1
        /\ run[r].rows = 2
        /\ run[r].prev_price = Num(100) /\ run[r].price = Num(110)
        /\ run[r].prev_btc = Num(10)
        /\ run[r].snapshot.btc = Num(11)
        /\ run[r].snapshot.total = Num(1210)

\* C7: a row whose price is zero or negative makes the call fail at that
\* row.
C7_BadPriceIsFatal ==
    \A r \in DOMAIN run :
        (run[r].rows > 0 /\ ~RPos(run[r].price)) => run[r].err # "none"

\* C8: the remark written for a row is non-empty exactly when the row
\* changed the position, and then it names the position switched to.
C8_RemarkMarksSwitches ==
    \A r \in DOMAIN run :
        Emitted(r)
            => /\ (run[r].snapshot.remark # NoRemark)
                    <=> (run[r].position # run[r].prev_position)
               /\ run[r].snapshot.remark # NoRemark
                    => /\ run[r].snapshot.remark[Len(run[r].snapshot.remark)]
                            = run[r].position
                       /\ run[r].snapshot.position = run[r].position

C8_Witness ==
    \E r \in DOMAIN run :
        /\ Emitted(r)
        /\ run[r].prev_position = SPOT /\ run[r].position = LEV2
        /\ run[r].snapshot.remark = <<"switch_to", LEV2>>

\* the canonical identifiers in the order normalize_signal is to try them
Priority == <<TI, MA, ADX>>

\* sub occurs in s at offset i (stated position by position)
OccursAt(s, sub, i) ==
    /\ i + Len(sub) <= Len(s)
    /\ \A j \in 1..Len(sub) : s[i + j] = sub[j]

Occurs(s, sub) == \E i \in 0..Len(s) : OccursAt(s, sub, i)

\* out is s without its leading and trailing whitespace
IsTrimOf(out, s) ==
    \E i \in 0..Len(s) :
        /\ OccursAt(s, out, i)
        /\ \A j \in 1..Len(s) :
              (j <= i \/ j > i + Len(out)) => s[j] \in Whitespace
        /\ out # <<>> => /\ out[1] \notin Whitespace
                         /\ out[Len(out)] \notin Whitespace

\* C9: normalize_signal returns the first of tempeture_index, 120_ma, ADX
\* that occurs in the label, the trimmed label when none occurs; a
\* canonical identifier maps to itself and normalizing twice equals
\* normalizing once.
C9_Normalizer ==
    normalized # <<>> =>
        /\ \A n \in 1..3 :
              (Occurs(label, Priority[n])
                 /\ \A m \in 1..(n - 1) : ~Occurs(label, Priority[m]))
                  => normalized[1] = Priority[n]
        /\ (\A n \in 1..3 : ~Occurs(label, Priority[n]))
              => IsTrimOf(normalized[1], label)
        /\ label \in SIGNALS => normalized[1] = label
        /\ Len(normalized) = 2 => normalized[2] = normalized[1]

C9_Witness ==
    /\ Len(normalized) = 2
    /\ label = ADX \o <<" ">> \o MA
    /\ normalized = <<MA, MA>>

\* a label without an identifier, trimmed of a carriage return and an
\* ideographic space
C9_TrimWitness ==
    /\ Len(normalized) = 2
    /\ label = <<"\r">> \o <<"A", "D">> \o <<"U+3000">>
    /\ normalized = <<<<"A", "D">>, <<"A", "D">>>>

\* C10: two calls sharing one policy table and interleaved row by row each
\* write exactly the details the call writes when it runs alone over its
\* rows, and the policy table stays among the tables handed in.
C10_IndependentRuns ==
    \A r \in DOMAIN hist :
        /\ run_backtest(policy, [i \in 1..Len(hist[r]) |-> hist[r][i].row])
              = [raises |-> "none",
                 returns |-> [i \in 1..Len(hist[r]) |-> hist[r][i].snapshot]]
        /\ Len(hist[r]) = run[r].rows
        /\ policy \in SharedPolicies

C10_Witness ==
    /\ DOMAIN hist = {1, 2}
    /\ Len(hist[1]) = 2 /\ Len(hist[2]) = 2
    /\ run[1].active_signals = {TI} /\ run[2].active_signals = {MA}
    /\ run[1].position # run[2].position
    /\ hist[1][2].snapshot = run[1].snapshot
    /\ hist[2][2].snapshot = run[2].snapshot

\* x >= 0
RNonNeg(x) == x[1] = 1 \/ IsZero(x)

Holding(position) == position = SPOT \/ Leveraged(position)

\* C11: after every row usd and btc are both non-negative.
C11_NonNegativeBalances ==
    \A r \in DOMAIN run :
        Emitted(r) => RNonNeg(run[r].usd) /\ RNonNeg(run[r].btc)

\* C12 as stated: after every row exactly one of usd and btc is non-zero:
\* usd while flat, btc while holding spot or a contract.
C12_ExactlyOneNonZero ==
    \A r \in DOMAIN run :
        Emitted(r)
            => /\ run[r].position = FLAT
                    => ~IsZero(run[r].usd) /\ IsZero(run[r].btc)
               /\ Holding(run[r].position)
                    => IsZero(run[r].usd) /\ ~IsZero(run[r].btc)

\* C12 (amended): after every row at most one of usd and btc is non-zero:
\* btc is zero while flat and usd is zero while holding spot or a contract.
C12_AtMostOneNonZero ==
    \A r \in DOMAIN run :
        Emitted(r)
            => /\ run[r].position = FLAT => IsZero(run[r].btc)
               /\ Holding(run[r].position) => IsZero(run[r].usd)
               /\ IsZero(run[r].usd) \/ IsZero(run[r].btc)

\* a 2x contract wiped out by a 50% fall: both balances are zero
C12_Witness ==
    \E r \in DOMAIN run :
        /\ Emitted(r) /\ run[r].position = LEV2 /\ ~run[r].switched
        /\ ~IsZero(run[r].prev_btc)
        /\ IsZero(run[r].usd) /\ IsZero(run[r].btc)

\* C13: after every row last_price is set exactly while the position is a
\* contract.
C13_ReferenceOnlyWhileLeveraged ==
    \A r \in DOMAIN run :
        Emitted(r) => (run[r].last_price # None <=> Leveraged(run[r].position))

\* the row just processed left the active signal set as it was
SetUnchanged(r) == Emitted(r) /\ ~run[r].set_changed

\* the row performed mark-to-market only
NoTransition(r) ==
    /\ ~run[r].switched
    /\ run[r].position = run[r].prev_position
    /\ run[r].snapshot.position = run[r].prev_position
    /\ run[r].snapshot.remark = NoRemark

\* C14 as stated: a row that leaves the active signal set unchanged causes
\* no position switch and writes an empty remark.
C14_UnchangedSetNoSwitch ==
    \A r \in DOMAIN run : SetUnchanged(r) => NoTransition(r)

\* the policy configures the empty signal set with a position other than flat
EmptySetOpens ==
    /\ {} \in DOMAIN policy
    /\ HasPosition(policy[{}])
    /\ policy[{}].position # FLAT

\* C14 (amended): a row after the first that leaves the active signal set
\* unchanged causes no position switch and writes an empty remark; so does
\* the first row, unless the policy maps the empty signal set to a position
\* other than flat.
C14_UnchangedSetNoSwitchAfterFirst ==
    \A r \in DOMAIN run :
        (SetUnchanged(r) /\ (run[r].rows > 1 \/ ~EmptySetOpens))
            => NoTransition(r)

C14_Witness ==
    \E r \in DOMAIN run :
        /\ SetUnchanged(r) /\ run[r].rows > 1
        /\ run[r].key = {MA}
        /\ run[r].position = LEV1
        /\ run[r].price # run[r].prev_price
        /\ run[r].snapshot.btc # run[r].prev_btc
        /\ NoTransition(r)

\* C16: the position is one of the four types in every state, also under a
\* policy holding another value; the row that meets such a value fails with
\* the position, the USD balance and the settled quantity as they were
\* before any liquidation or reopening.
C16_PositionEnumerated ==
    \A r \in DOMAIN run :
        /\ run[r].position \in POSITIONS
        /\ run[r].snapshot.position \in POSITIONS \cup {NoSnapshot.position}
        /\ Emitted(r) => run[r].snapshot.position \in POSITIONS
        /\ run[r].err = "ValueError"
              => /\ run[r].position = run[r].prev_position
                 /\ run[r].usd = run[r].prev_usd
                 /\ ~Leveraged(run[r].prev_position)
                      => run[r].btc = run[r].prev_btc
                 /\ run[r].btc =
                        SettlePnL(run[r].prev_position, run[r].prev_btc,
                                  run[r].prev_last_price, run[r].price)
                 /\ ~run[r].switched
                 /\ policy[run[r].key].position \notin POSITIONS

C16_Witness ==
    \E r \in DOMAIN run :
        /\ run[r].err = "ValueError"
        /\ run[r].prev_position = SPOT /\ run[r].position = SPOT
        /\ run[r].btc = run[r].prev_btc /\ IsZero(run[r].usd)
        /\ policy[run[r].key].position = BadPosition

\* C17: after every row processed to the end, if the active signal set is
\* a key of the policy with a non-empty configuration, the position is the
\* one configured for it.
C17_PositionFollowsPolicy ==
    \A r \in DOMAIN run :
        (Emitted(r) /\ run[r].active_signals \in DOMAIN policy
            /\ Truthy(policy[run[r].active_signals]))
            => /\ run[r].position = policy[run[r].active_signals].position
               /\ run[r].snapshot.position = run[r].position

C17_Witness ==
    \E r \in DOMAIN run :
        /\ Emitted(r) /\ run[r].rows > 1
        /\ run[r].active_signals = {}
        /\ {} \in DOMAIN policy /\ Truthy(policy[{}])
        /\ run[r].prev_position = LEV1
        /\ run[r].position = SPOT
        /\ policy[{}].position = SPOT

\* the rows read so far
TraceRows == [i \in 1..Len(hist[1]) |-> hist[1][i].row]

\* the action of the most recent enter-or-exit row of signal s
RECURSIVE LastAction(_, _)
LastAction(rows, s) ==
    IF rows = <<>> THEN "none"
    ELSE LET row == rows[Len(rows)]
         IN  IF normalize_signal(row.signal) = s
                  /\ row.action \in {ENTER, EXIT}
             THEN row.action
             ELSE LastAction(SubSeq(rows, 1, Len(rows) - 1), s)

\* C15: after any sequence of rows a normalized signal is in the active
\* signal set exactly when the most recent enter-or-exit row of that signal
\* was an enter (so a repeated enter needs no matching exits, an exit of an
\* absent signal and a row of another action change nothing); in the engine
\* and in the script alike.
C15_ActiveIffLastWasEnter ==
    /\ Len(hist[1]) = run[1].rows
    /\ \A r \in DOMAIN run :
          \A s \in SIGNALS \cup run[r].active_signals :
              s \in run[r].active_signals <=> LastAction(TraceRows, s) = ENTER

C15_Witness ==
    /\ Len(hist[1]) = 3
    /\ \A i \in 1..3 : normalize_signal(hist[1][i].row.signal) = MA
    /\ hist[1][1].row.action = ENTER
    /\ hist[1][2].row.action = ENTER
    /\ hist[1][3].row.action = EXIT
    /\ run[1].active_signals = {}
    /\ run[2].active_signals = {}

\* C18: two calls over the same rows whose policies agree on every position
\* and differ only in the ratios write the same details at every row, and a
\* switch into a holding position converts the whole balance whatever the
\* ratio.
C18_RatioHasNoEffect ==
    /\ run[1].rows = run[2].rows
    /\ run[1].err = run[2].err
    /\ run[1].snapshot = run[2].snapshot
    /\ \A r \in DOMAIN run :
          (run[r].switched /\ Holding(run[r].position))
              => /\ IsZero(run[r].usd)
                 /\ run[r].btc =
                        RDiv(IF run[r].prev_position = FLAT
                             THEN run[r].prev_usd
                             ELSE RMul(run[r].settled_btc, run[r].price),
                             run[r].price)

C18_Witness ==
    /\ run[1].rows = 3
    /\ run[1].switched /\ run[1].position = LEV2
    /\ run[1].prev_position = SPOT
    /\ "ratio" \in DOMAIN policy[run[1].key]
    /\ policy[run[1].key].ratio = Zero
    /\ "ratio" \in DOMAIN variant[run[2].key]
    /\ variant[run[2].key].ratio = Num(1)
    /\ run[2].snapshot.position = LEV2
    /\ run[1].snapshot.total # Num(InitialUsd)

\* C19: at every row run_backtest with DEFAULT_POLICY and the signal-count
\* script write the same position, quantity, total and signal set.
C19_EnginesAgree ==
    /\ run[1].rows = run[2].rows
    /\ run[1].err = "none" /\ run[2].err = "none"
    /\ run[1].snapshot.position = run[2].snapshot.position
    /\ run[1].snapshot.btc = run[2].snapshot.btc
    /\ run[1].snapshot.total = run[2].snapshot.total
    /\ run[1].snapshot.signals = run[2].snapshot.signals
    /\ run[1].position = run[2].current_position
    /\ run[1].active_signals \subseteq SIGNALS

C19_Witness ==
    /\ run[1].rows = 4 /\ run[2].rows = 4
    /\ run[2].snapshot.position = LEV2
    /\ run[1].prev_position = LEV2
    /\ run[1].price # run[1].prev_price
    /\ run[1].snapshot.btc # run[1].prev_btc
    /\ run[1].snapshot.btc = run[2].snapshot.btc

====
